---- MODULE Spec2Model ----
(***************************************************************************)
(* Hanzi Trainer (hanzi_trainer_react_single_file_prototype.jsx).          *)
(*                                                                         *)
(* The state of the HanziTrainer component (cards, idx, showAnswer,        *)
(* clearSignal), the slot of its MultiCanvas child, and the event handlers *)
(* loadCards, next, onIncorrect, onCheck, goLeft, goRight and onKey; the   *)
(* ink layer of the four DrawCanvas children with its pointer handlers;    *)
(* and the pure functions splitHanziToChars and fitFontSize.               *)
(* Every handler runs to completion and React renders before the next      *)
(* input event is dispatched, so one action is one handler together with   *)
(* the render that follows it.  Indices are 0-based as in the source:      *)
(* the JavaScript cards[i] is the TLA+ cards[i + 1].                       *)
(***************************************************************************)
EXTENDS Integers, Sequences, FiniteSets, TLC

\* ---------------------------------------------------------------- bounds
\* Largest vocabulary (number of rows parseCSV2 yields) that is explored.
MaxRecords == 3
\* Largest number of incorrect gradings explored in one session.
MaxIncorrect == 3
\* Largest value of clearSignal explored when handlers are called directly.
MaxSignal == 12
\* Largest vocabulary and number of incorrect gradings per session that are
\* explored together with drawing on the canvases.
CanvasRecords == 1
CanvasIncorrect == 1
\* Largest number of pointer moves explored within one stroke, and of
\* strokes explored between two mounts of MultiCanvas.
MaxMoves == 2
MaxStrokes == 1
\* Longest text (in code points) and largest max given to splitHanziToChars.
MaxTextLen == 3
MaxUnits == 4
\* Largest box side (px), padding (px) and text length given to fitFontSize.
MaxBox == 16
MaxPad == 1
MaxGlyphs == 2

\* ------------------------------------------------------ program constants
ShortOffset == 4
NumSlots == 4
MinFont == 12
FontStep == 2

VARIABLES
    vocab,        \* parseCSV2(sampleCSV): the vocabulary rows, fixed for a run
    cards,        \* useState<Card[]>([])
    idx,          \* useState(0)
    showAnswer,   \* useState(false)
    clearSignal,  \* useState(0)
    slot,         \* MultiCanvas: useState(0)
    event,        \* observer: the handler that produced this state
    gradings,     \* observer: gradings since the last loadCards
    incorrects,   \* observer: incorrect gradings since the last loadCards
    shuffled,     \* observer: the ids of the deck as loadCards shuffled it
    presented,    \* observer: the ids of the graded cards, in grading order
    placed,       \* observer: one record per incorrect grading of the session
    ink,          \* DrawCanvas i: what is painted on its drawing layer
    path,         \* DrawCanvas i: segments of the current path of its context
    drawing,      \* DrawCanvas i: let drawing
    cleared,      \* observer: slot i was cleared and saw no pointer-down since
    strokes,      \* observer: pointer-downs since MultiCanvas was mounted
    seg,          \* one call of splitHanziToChars: arguments and result
    fit           \* one call of fitFontSize: arguments, locals and result

vars == <<vocab, cards, idx, showAnswer, clearSignal, slot,
          event, gradings, incorrects, shuffled, presented, placed,
          ink, path, drawing, cleared, strokes, seg, fit>>

canvasVars == <<ink, path, drawing, cleared, strokes>>

pureVars == <<seg, fit>>

\* ----------------------------------------------------------------- types
\* A Vocab row {hanzi, pinyin, english}; row r of the file is three texts
\* that belong to r, written r for each of them.
Vocab(r) == [hanzi |-> r, pinyin |-> r, english |-> r]

\* cards[idx] when idx is out of range, and the fields a spread of it gives:
\* every field absent.  An absent text or id is 0, an absent flag is FALSE
\* (scheduledShort?: and scheduledEnd?: are optional, read only as truthy).
Undefined ==
    [id |-> 0, baseId |-> 0, hanzi |-> 0, pinyin |-> 0, english |-> 0,
     scheduledShort |-> FALSE, scheduledEnd |-> FALSE]

Min(a, b) == IF a <= b THEN a ELSE b

SetMax(S) == CHOOSE m \in S : \A x \in S : x <= m

\* -------------------------------------------------------------- utilities
\* uuid(): a string no card in use carries.  Ids are only ever compared for
\* equality, so the fresh value is the least number above those in `used`.
uuid(used) == SetMax(used \cup {0}) + 1

UsedIds(cs) == {cs[i].id : i \in DOMAIN cs} \cup {cs[i].baseId : i \in DOMAIN cs}

\* textToCards: vocab.map((v) => ({ id: uuid(), baseId: uuid(), ...v })).
\* The two calls of row i are the (2i-1)-th and the 2i-th call of uuid().
textToCards(vs) ==
    [i \in DOMAIN vs |->
        [id |-> 2 * i - 1, baseId |-> 2 * i,
         hanzi |-> vs[i].hanzi, pinyin |-> vs[i].pinyin, english |-> vs[i].english,
         scheduledShort |-> FALSE, scheduledEnd |-> FALSE]]

\* The swap with its second assignment lost: copy[i] = copy[j] only.
Swap_Overwrite(s, i, j) == [s EXCEPT ![i] = s[j]]

Swap(s, i, j) == [s EXCEPT ![i] = s[j], ![j] = s[i]]

\* shuffle: for (i = length - 1; i > 0; i--) { j = floor(random() * (i + 1));
\* swap copy[i], copy[j] }.  ShuffleFrom(copy, n) is every array the loop can
\* return when it still has to place the 1-based positions n, n-1, ..., 2.
RECURSIVE ShuffleFrom(_, _)
ShuffleFrom(copy, n) ==
    IF n <= 1 THEN {copy}
    ELSE UNION {ShuffleFrom(Swap(copy, n, j), n - 1) : j \in 1..n}

shuffle(array) == ShuffleFrom(array, Len(array))

\* const current = cards[idx]
currentOf(cs, i) == IF i + 1 \in DOMAIN cs THEN cs[i + 1] ELSE Undefined

current == currentOf(cards, idx)

\* if (!current) return <Done/>: the done view is rendered, MultiCanvas is not.
doneView(cs, i) == currentOf(cs, i) = Undefined

\* ---------------------------------------------------------------- render
Slots == 0..(NumSlots - 1)

\* A canvas as the drawing-layer effect leaves it at mount: nothing painted,
\* an empty path, drawing = false.
NoInk == [i \in Slots |-> {}]

NoPath == [i \in Slots |-> 0]

NotDrawing == [i \in Slots |-> FALSE]

AllCleared == [i \in Slots |-> TRUE]

\* showGhost={showAnswer}: the ghost of every slot is shown with the answer.
ghostVisible == showAnswer

\* The ghost layer effect run on the drawing layer's canvas: g.width = width
\* and clearRect wipe what was drawn.
ghostEffect_OnDrawingLayer(inkOf) == [i \in Slots |-> {}]

\* The ghost layer effect of DrawCanvas redraws ghostRef's canvas only; the
\* drawing layer effect depends on [width, height] and does not run again.
ghostEffect(inkOf) == inkOf

\* The clearSignal effect with only the visible canvas cleared.
clearEffect_ActiveOnly(inkOf, s) == [inkOf EXCEPT ![s] = {}]

\* The clearSignal effect: refs.forEach((r) => r.current?.clear()), and
\* clear: ctx.clearRect(0, 0, c.width, c.height).  The context keeps its path.
clearEffect(inkOf, s) == [i \in Slots |-> {}]

\* MultiCanvas keeps `slot` and its four canvases while it stays mounted; when
\* the done view replaces it they are dropped, and the next mount starts at
\* useState(0) with new canvases.  While mounted, a changed showGhost runs the
\* ghost effect and a changed clearSignal runs the clear effect.
Render(newSlot) ==
    /\ slot' = IF doneView(cards', idx') THEN 0 ELSE newSlot
    /\ IF doneView(cards', idx')
       THEN /\ ink' = NoInk
            /\ path' = NoPath
            /\ drawing' = NotDrawing
            /\ cleared' = AllCleared
            /\ strokes' = 0
       ELSE /\ ink' = LET shown == IF showAnswer' # showAnswer THEN ghostEffect(ink) ELSE ink
                      IN  IF clearSignal' # clearSignal THEN clearEffect(shown, slot) ELSE shown
            /\ cleared' = IF clearSignal' # clearSignal THEN AllCleared ELSE cleared
            /\ UNCHANGED <<path, drawing, strokes>>

\* --------------------------------------------------------------- handlers
\* loadCards without setIdx(0).
loadCards_KeepIdx ==
    /\ \E s \in shuffle(textToCards(vocab)) : cards' = s
    /\ idx' = idx
    /\ showAnswer' = FALSE
    /\ clearSignal' = 0

\* loadCards
loadCards ==
    /\ \E s \in shuffle(textToCards(vocab)) : cards' = s
    /\ idx' = 0
    /\ showAnswer' = FALSE
    /\ clearSignal' = 0

\* next: setIdx((i) => Math.min(i + 1, cards.length)); setShowAnswer(false);
\* clearAllCanvases().  cards is the array of the render the handler closed over.
nextIdx(i, cs) == Min(i + 1, Len(cs))

\* next that also takes the graded card out of the queue.
next_DropCard ==
    /\ idx' = nextIdx(idx, cards)
    /\ showAnswer' = FALSE
    /\ clearSignal' = clearSignal + 1
    /\ cards' = SubSeq(cards, 1, idx) \o SubSeq(cards, idx + 2, Len(cards))

next ==
    /\ idx' = nextIdx(idx, cards)
    /\ showAnswer' = FALSE
    /\ clearSignal' = clearSignal + 1
    /\ cards' = cards

\* The two clones of onIncorrect: { ...card, id: uuid(), scheduledShort: true }
\* and { ...card, id: uuid(), scheduledEnd: true }.
shortClone(card, cs) ==
    [card EXCEPT !.id = uuid(UsedIds(cs)), !.scheduledShort = TRUE]

atEndClone(card, cs) ==
    [card EXCEPT !.id = uuid(UsedIds(cs)) + 1, !.scheduledEnd = TRUE]

\* copy.splice(insertPos, 0, item)
splice(copy, insertPos, item) ==
    SubSeq(copy, 1, insertPos) \o <<item>> \o SubSeq(copy, insertPos + 1, Len(copy))

\* insertClones whose splice deletes one item: copy.splice(insertPos, 1, short).
insertClones_Overwrite(prev, i, short, atEnd) ==
    LET insertPos == Min(i + ShortOffset, Len(prev))
    IN  Append(SubSeq(prev, 1, insertPos) \o <<short>> \o SubSeq(prev, insertPos + 2, Len(prev)),
               atEnd)

\* insertClones with the two statements in the other order: push, then splice
\* with the clamp taken on the array that already holds the end clone.
insertClones_PushFirst(prev, i, short, atEnd) ==
    LET copy == Append(prev, atEnd)
        insertPos == Min(i + ShortOffset, Len(copy))
    IN  splice(copy, insertPos, short)

\* The setCards updater of onIncorrect.
insertClones(prev, i, short, atEnd) ==
    LET insertPos == Min(i + ShortOffset, Len(prev))
    IN  Append(splice(prev, insertPos, short), atEnd)

\* onIncorrect without the setCards call: the card is passed like a correct one.
onIncorrect_NoRequeue ==
    /\ cards' = cards
    /\ idx' = nextIdx(idx, cards)
    /\ showAnswer' = FALSE
    /\ clearSignal' = clearSignal + 2

\* onIncorrect that steps the cursor itself and then still calls next().
onIncorrect_DoubleAdvance ==
    LET card == currentOf(cards, idx)
    IN  /\ cards' = insertClones(cards, idx, shortClone(card, cards), atEndClone(card, cards))
        /\ idx' = nextIdx(idx + 1, cards)
        /\ showAnswer' = FALSE
        /\ clearSignal' = clearSignal + 2

\* onIncorrect: the updater, clearAllCanvases(), then next() (which closes
\* over the same render's cards and clears once more).
onIncorrect ==
    LET card == currentOf(cards, idx)
    IN  /\ cards' = insertClones(cards, idx, shortClone(card, cards), atEndClone(card, cards))
        /\ idx' = nextIdx(idx, cards)
        /\ showAnswer' = FALSE
        /\ clearSignal' = clearSignal + 2

\* onCheck: setShowAnswer(true); speech output is not part of the state.
onCheck ==
    /\ showAnswer' = TRUE
    /\ UNCHANGED <<cards, idx, clearSignal>>

\* goLeft without the wrap-around: s - 1.
goLeft_NoWrap == slot' = slot - 1

\* goLeft / goRight
goLeft == slot' = (slot + 3) % NumSlots

goRight == slot' = (slot + 1) % NumSlots

\* onKey
onKey(key) ==
    /\ key \in {"ArrowLeft", "ArrowRight"}
    /\ IF key = "ArrowLeft" THEN goLeft ELSE goRight

\* ------------------------------------------------------------- observers
\* What an incorrect grading at position p did: the graded card, the number
\* n of gradings made before it, and the id and 0-based index of the first
\* item of the new queue that the old lacks.
Placement(old, new, p) ==
    LET added == {j \in DOMAIN new : \A o \in DOMAIN old : old[o].id # new[j].id}
        first == IF added = {} THEN 0 ELSE CHOOSE j \in added : \A x \in added : j <= x
    IN  [pos |-> p,
         n |-> gradings,
         graded |-> currentOf(old, p).id,
         baseId |-> currentOf(old, p).baseId,
         id |-> IF added = {} THEN 0 ELSE new[first].id,
         at |-> first - 1]

Observe(e, graded, wrong) ==
    /\ event' = e
    /\ gradings' = gradings + graded
    /\ incorrects' = incorrects + wrong
    /\ presented' = IF graded = 1 THEN Append(presented, current.id) ELSE presented
    /\ placed' = IF wrong = 1 THEN Append(placed, Placement(cards, cards', idx)) ELSE placed
    /\ UNCHANGED shuffled

ObserveLoad ==
    /\ event' = "loadCards"
    /\ gradings' = 0
    /\ incorrects' = 0
    /\ presented' = <<>>
    /\ placed' = <<>>
    /\ shuffled' = [i \in DOMAIN cards' |-> cards'[i].id]

\* ------------------------------------------------------------- the program
\* seg and fit while neither pure function is being called.
NoCall == [pc |-> "idle"]

HanziInit ==
    /\ vocab \in {[i \in 1..k |-> Vocab(i)] : k \in 1..MaxRecords}
    /\ cards = <<>>
    /\ idx = 0
    /\ showAnswer = FALSE
    /\ clearSignal = 0
    /\ slot = 0
    /\ event = "init"
    /\ gradings = 0
    /\ incorrects = 0
    /\ shuffled = <<>>
    /\ presented = <<>>
    /\ placed = <<>>
    /\ ink = NoInk
    /\ path = NoPath
    /\ drawing = NotDrawing
    /\ cleared = AllCleared
    /\ strokes = 0

Init ==
    /\ HanziInit
    /\ seg = NoCall
    /\ fit = NoCall

\* The mount effect, and the Start Again button of the done view.
StartAgain ==
    /\ doneView(cards, idx)
    /\ loadCards
    /\ Render(slot)
    /\ ObserveLoad
    /\ UNCHANGED <<vocab, pureVars>>

\* The Check button of the card view.
ClickCheck ==
    /\ ~doneView(cards, idx)
    /\ onCheck
    /\ Render(slot)
    /\ Observe("onCheck", 0, 0)
    /\ UNCHANGED <<vocab, pureVars>>

\* The Correct button, rendered once the answer is shown.
ClickCorrect ==
    /\ ~doneView(cards, idx)
    /\ showAnswer
    /\ next
    /\ Render(slot)
    /\ Observe("next", 1, 0)
    /\ UNCHANGED <<vocab, pureVars>>

\* The Fout button rendered in every view, the done view included.
ClickIncorrect_InEveryView ==
    /\ incorrects < MaxIncorrect
    /\ onIncorrect
    /\ Render(slot)
    /\ Observe("onIncorrect", 1, 1)
    /\ UNCHANGED <<vocab, pureVars>>

\* The Fout button, rendered once the answer is shown.
ClickIncorrect ==
    /\ ~doneView(cards, idx)
    /\ showAnswer
    /\ incorrects < MaxIncorrect
    /\ onIncorrect
    /\ Render(slot)
    /\ Observe("onIncorrect", 1, 1)
    /\ UNCHANGED <<vocab, pureVars>>

\* The two arrow buttons of MultiCanvas.
ClickLeft ==
    /\ ~doneView(cards, idx)
    /\ goLeft
    /\ Observe("goLeft", 0, 0)
    /\ UNCHANGED <<vocab, cards, idx, showAnswer, clearSignal, canvasVars, pureVars>>

ClickRight ==
    /\ ~doneView(cards, idx)
    /\ goRight
    /\ Observe("goRight", 0, 0)
    /\ UNCHANGED <<vocab, cards, idx, showAnswer, clearSignal, canvasVars, pureVars>>

\* The keydown listener MultiCanvas installs while it is mounted.
KeyDown ==
    /\ ~doneView(cards, idx)
    /\ \E key \in {"ArrowLeft", "ArrowRight"} :
          /\ onKey(key)
          /\ Observe(key, 0, 0)
    /\ UNCHANGED <<vocab, cards, idx, showAnswer, clearSignal, canvasVars, pureVars>>

Next ==
    \/ StartAgain
    \/ ClickCheck
    \/ ClickCorrect
    \/ ClickIncorrect
    \/ ClickLeft
    \/ ClickRight
    \/ KeyDown

Spec == Init /\ [][Next]_vars

\* ------------------------------------------- handlers called directly
\* The same handlers without the views that decide which buttons exist:
\* the scheduler's operations invoked in any state and in any order, once
\* the mount effect has run loadCards.
CallLoadCards ==
    /\ loadCards
    /\ Render(slot)
    /\ ObserveLoad
    /\ UNCHANGED <<vocab, pureVars>>

CallOnCheck ==
    /\ event # "init"
    /\ onCheck
    /\ Render(slot)
    /\ Observe("onCheck", 0, 0)
    /\ UNCHANGED <<vocab, pureVars>>

CallNext ==
    /\ event # "init"
    /\ clearSignal < MaxSignal
    /\ next
    /\ Render(slot)
    /\ Observe("next", 1, 0)
    /\ UNCHANGED <<vocab, pureVars>>

CallOnIncorrect ==
    /\ event # "init"
    /\ clearSignal < MaxSignal
    /\ incorrects < MaxIncorrect
    /\ onIncorrect
    /\ Render(slot)
    /\ Observe("onIncorrect", 1, 1)
    /\ UNCHANGED <<vocab, pureVars>>

NextApi ==
    \/ CallLoadCards
    \/ CallOnCheck
    \/ CallNext
    \/ CallOnIncorrect

SpecApi == Init /\ [][NextApi]_vars

\* ------------------------------------------------- a learner who keeps grading
\* The grading events alone (navigation touches nothing but slot), with the
\* learner revealing and grading every card that is shown.
NextGrading ==
    \/ StartAgain
    \/ ClickCheck
    \/ ClickCorrect
    \/ ClickIncorrect

FairSpec ==
    /\ Init
    /\ [][NextGrading]_vars
    /\ WF_vars(ClickCheck)
    /\ WF_vars(ClickCorrect \/ ClickIncorrect)

\* ------------------------------------------------------ splitHanziToChars
\* A text is a sequence of code points.  Zhong and Guo stand for two hanzi,
\* Mark for a combining mark (a variation selector, say), which a grapheme
\* cluster takes in after its base, Space for U+0020 and IdSpace for U+3000.
Zhong == "zhong"

Guo == "guo"

Mark == "mark"

Space == "space"

IdSpace == "idspace"

CodePoints == {Zhong, Guo, Mark, Space, IdSpace}

\* /[\s\u3000]/
IsSpace(c) == c \in {Space, IdSpace}

NotSpace(c) == ~IsSpace(c)

\* text.replace(/[\s\u3000]/g, "")
Clean(text) == SelectSeq(text, NotSpace)

\* Array.from(clean): one unit per code point.
ArrayFrom(clean) == [i \in DOMAIN clean |-> <<clean[i]>>]

\* for (const { segment } of seg.segment(clean)) units.push(segment): the
\* grapheme clusters of clean, a mark joining the cluster before it.
RECURSIVE Graphemes(_)
Graphemes(clean) ==
    IF clean = <<>> THEN <<>>
    ELSE LET n == Len(clean)
             before == Graphemes(SubSeq(clean, 1, n - 1))
         IN  IF clean[n] = Mark /\ before # <<>>
             THEN [before EXCEPT ![Len(before)] = Append(@, Mark)]
             ELSE Append(before, <<clean[n]>>)

\* The three ways through the try block: Intl.Segmenter is there and works,
\* it is missing, or it throws and the catch block takes over.
Engines == {"segmenter", "missing", "throws"}

Units(clean, intl) ==
    IF intl = "segmenter" THEN Graphemes(clean) ELSE ArrayFrom(clean)

\* new Array(max).fill(""), and while (first.length < max) first.push("")
Padding(n) == [i \in 1..n |-> <<>>]

\* splitHanziToChars without the padding loop.
splitHanziToChars_NoPad(text, max, intl) ==
    IF text = <<>> THEN Padding(max)
    ELSE LET units == Units(Clean(text), intl)
         IN  SubSeq(units, 1, Min(max, Len(units)))

splitHanziToChars(text, max, intl) ==
    IF text = <<>> THEN Padding(max)
    ELSE LET units == Units(Clean(text), intl)
             first == SubSeq(units, 1, Min(max, Len(units)))
         IN  first \o Padding(max - Len(first))

\* The texts of at most n code points.
Texts(n) == UNION {[1..k -> CodePoints] : k \in 0..n}

\* One call of splitHanziToChars, on any text, any length max and any engine.
InitSegment ==
    /\ HanziInit
    /\ Len(vocab) = 1
    /\ fit = NoCall
    /\ \E text \in Texts(MaxTextLen), max \in 0..MaxUnits, intl \in Engines :
          seg = [pc |-> "call", text |-> text, max |-> max, intl |-> intl,
                 result |-> <<>>]

CallSplit ==
    /\ seg.pc = "call"
    /\ seg' = [seg EXCEPT !.pc = "done",
                          !.result = splitHanziToChars(seg.text, seg.max, seg.intl)]
    /\ UNCHANGED <<vocab, cards, idx, showAnswer, clearSignal, slot, event,
                   gradings, incorrects, shuffled, presented, placed,
                   canvasVars, fit>>

SpecSegment == InitSegment /\ [][CallSplit]_vars

\* ------------------------------------------------------------ fitFontSize
\* Box sides are given in half pixels (boxW = w2 / 2), so that Math.floor has
\* something to round; padding is in pixels.  measureText(text).width at font
\* size s is glyphs * s: each glyph of the text is one em wide, and a text
\* that cannot be measured has width 0.
measureText(glyphs, size) == glyphs * size

Max(a, b) == IF a >= b THEN a ELSE b

\* let size = Math.min(boxW, boxH) - padding * 2; size = Math.max(12, Math.floor(size))
startSize(w2, h2, padding) == Max(MinFont, (Min(w2, h2) - 4 * padding) \div 2)

\* m.width > boxW - 2 * padding || size > boxH - 2 * padding, both sides doubled
tooBig(f) ==
    \/ 2 * measureText(f.glyphs, f.size) > f.w2 - 4 * f.padding
    \/ 2 * f.size > f.h2 - 4 * f.padding

\* the condition of the while loop
shrinking(f) == tooBig(f) /\ f.size > MinFont

\* One call of fitFontSize, on any box, padding and text.
InitFit ==
    /\ HanziInit
    /\ Len(vocab) = 1
    /\ seg = NoCall
    /\ \E w2 \in 0..(2 * MaxBox), h2 \in 0..(2 * MaxBox),
          padding \in 0..MaxPad, glyphs \in 0..MaxGlyphs :
          fit = [pc |-> "call", w2 |-> w2, h2 |-> h2, padding |-> padding,
                 glyphs |-> glyphs, size |-> 0]

FitFrame ==
    UNCHANGED <<vocab, cards, idx, showAnswer, clearSignal, slot, event,
                gradings, incorrects, shuffled, presented, placed,
                canvasVars, seg>>

\* lines 168-171: the first candidate size
FitStart ==
    /\ fit.pc = "call"
    /\ fit' = [fit EXCEPT !.pc = "loop",
                          !.size = startSize(fit.w2, fit.h2, fit.padding)]
    /\ FitFrame

\* one turn of the loop: size -= 2
FitShrink ==
    /\ fit.pc = "loop"
    /\ shrinking(fit)
    /\ fit' = [fit EXCEPT !.size = fit.size - FontStep]
    /\ FitFrame

\* return size
FitReturn ==
    /\ fit.pc = "loop"
    /\ ~shrinking(fit)
    /\ fit' = [fit EXCEPT !.pc = "done"]
    /\ FitFrame

NextFit ==
    \/ FitStart
    \/ FitShrink
    \/ FitReturn

SpecFit == InitFit /\ [][NextFit]_vars

\* ------------------------------------------------------ drawing on a slot
\* What is painted on a drawing layer is a set of marks: k >= 1 is the k-th
\* segment of the context's current path, 0 is the ink of earlier paths.
\* down: drawing = true; ctx.beginPath(); ctx.moveTo(x, y).  beginPath empties
\* the current path; what earlier paths painted stays painted.
down(i) ==
    /\ drawing' = [drawing EXCEPT ![i] = TRUE]
    /\ path' = [path EXCEPT ![i] = 0]
    /\ ink' = [ink EXCEPT ![i] = IF ink[i] = {} THEN {} ELSE {0}]
    /\ cleared' = [cleared EXCEPT ![i] = FALSE]
    /\ strokes' = strokes + 1

\* move: if (!drawing) return; ctx.lineTo(x, y); ctx.stroke().  lineTo adds a
\* segment to the current path and stroke paints the whole current path.
move(i) ==
    IF ~drawing[i] THEN UNCHANGED canvasVars
    ELSE /\ path' = [path EXCEPT ![i] = path[i] + 1]
         /\ ink' = [ink EXCEPT ![i] = ink[i] \cup (1..(path[i] + 1))]
         /\ UNCHANGED <<drawing, cleared, strokes>>

\* up: drawing = false, in the window listener of each of the four canvases.
up ==
    /\ drawing' = NotDrawing
    /\ UNCHANGED <<ink, path, cleared, strokes>>

\* The pointer is over the visible canvas (overflow-hidden, translateX by
\* slot); one pointer draws at a time.
PointerDown ==
    /\ ~doneView(cards, idx)
    /\ \A i \in Slots : ~drawing[i]
    /\ strokes < MaxStrokes
    /\ down(slot)
    /\ Observe("pointer", 0, 0)
    /\ UNCHANGED <<vocab, cards, idx, showAnswer, clearSignal, slot, pureVars>>

PointerMove ==
    /\ ~doneView(cards, idx)
    /\ path[slot] < MaxMoves
    /\ move(slot)
    /\ Observe("pointer", 0, 0)
    /\ UNCHANGED <<vocab, cards, idx, showAnswer, clearSignal, slot, pureVars>>

\* A pointer released anywhere in the window.
PointerUp ==
    /\ ~doneView(cards, idx)
    /\ up
    /\ Observe("pointer", 0, 0)
    /\ UNCHANGED <<vocab, cards, idx, showAnswer, clearSignal, slot, pureVars>>

\* The session of HanziTrainer with the learner drawing and navigating by
\* the arrow buttons (the arrow keys do what the buttons do).  A button's onClick
\* runs on a pointer click (PointerUp, then the handler) and on keyboard
\* activation (the handler alone, possibly while a pointer is held down).
InitCanvas == Init /\ Len(vocab) <= CanvasRecords

CanvasClickIncorrect == incorrects < CanvasIncorrect /\ ClickIncorrect

NextCanvas ==
    \/ StartAgain
    \/ ClickCheck
    \/ ClickCorrect
    \/ CanvasClickIncorrect
    \/ ClickLeft
    \/ ClickRight
    \/ PointerDown
    \/ PointerMove
    \/ PointerUp

SpecCanvas == InitCanvas /\ [][NextCanvas]_vars

\* ------------------------------------------------------------------ claims
IsGrading == event' \in {"next", "onIncorrect"}

Untagged(c) == ~c.scheduledShort /\ ~c.scheduledEnd

Ids(cs) == {cs[i].id : i \in DOMAIN cs}

\* x is the short clone onIncorrect makes of c: c's record under a new tag.
ShortOf(x, c) ==
    /\ x.scheduledShort
    /\ x.scheduledEnd = c.scheduledEnd
    /\ x.baseId = c.baseId

\* x is the end clone onIncorrect makes of c.
EndOf(x, c) ==
    /\ x.scheduledEnd
    /\ x.scheduledShort = c.scheduledShort
    /\ x.baseId = c.baseId

\* C1: an incorrect grading at position p of a queue of length L puts the
\* short clone at index min(p + 4, L), L taken before anything is inserted,
\* leaves the items before that index in place, moves the items from that
\* index on up by one, and puts the end clone last, at index L + 1; when
\* p + 4 >= L the queue ends with the short clone followed by the end clone.
C1_ReinsertionPlacement ==
    [][event' = "onIncorrect" =>
        LET p == idx
            L == Len(cards)
            c == cards[p + 1]
            at == Min(p + 4, L)
        IN  /\ p < L
            /\ Len(cards') = L + 2
            /\ \A i \in 1..at : cards'[i] = cards[i]
            /\ \A i \in (at + 1)..L : cards'[i + 1] = cards[i]
            /\ ShortOf(cards'[at + 1], c)
            /\ EndOf(cards'[L + 2], c)
            /\ {cards'[at + 1].id, cards'[L + 2].id} \cap Ids(cards) = {}
            /\ cards'[at + 1].id # cards'[L + 2].id
            /\ (p + 4 >= L => ShortOf(cards'[L + 1], c))
    ]_vars

\* Deck [A, B], A graded incorrect and then B correct:
\* the queue is [A, B, A(short), A(end)] and the position is 2.
C1_Witness ==
    /\ Len(vocab) = 2
    /\ event = "next"
    /\ presented = <<cards[1].id, cards[2].id>>
    /\ idx = 2
    /\ Len(cards) = 4
    /\ Untagged(cards[1]) /\ Untagged(cards[2])
    /\ cards[1].baseId # cards[2].baseId
    /\ ShortOf(cards[3], cards[1]) /\ ~cards[3].scheduledEnd
    /\ EndOf(cards[4], cards[1]) /\ ~cards[4].scheduledShort

\* C2: one incorrect grading of a current item makes the queue exactly two
\* items longer and moves the position exactly one forward.
C2_IncorrectGrowsByTwo ==
    [][event' = "onIncorrect" =>
        /\ idx < Len(cards)
        /\ Len(cards') = Len(cards) + 2
        /\ idx' = idx + 1
    ]_vars

C2_Witness ==
    /\ event = "onIncorrect"
    /\ incorrects = 2
    /\ Len(cards) = Len(vocab) + 4
    /\ idx < Len(cards)

\* C3: one correct grading of a current item moves the position exactly one
\* forward and leaves the queue as it was: same length, items and order.
C3_CorrectKeepsQueue ==
    [][event' = "next" =>
        /\ idx < Len(cards)
        /\ idx' = idx + 1
        /\ cards' = cards
    ]_vars

C3_Witness ==
    /\ event = "next"
    /\ incorrects = 1
    /\ idx = 2
    /\ Len(cards) = Len(vocab) + 2

\* C4: in every reachable state 0 <= idx <= cards.length; the done view is
\* shown (no current item) exactly when idx = cards.length, and otherwise
\* the current item is cards[idx].
C4_PositionInRange ==
    /\ 0 <= idx
    /\ idx <= Len(cards)
    /\ doneView(cards, idx) <=> idx = Len(cards)
    /\ idx < Len(cards) => current = cards[idx + 1] /\ current.id \in Ids(cards)

\* A session that was restarted, navigated, graded both ways and exhausted.
C4_Witness ==
    /\ idx = Len(cards)
    /\ doneView(cards, idx)
    /\ incorrects >= 1
    /\ gradings > incorrects
    /\ Len(cards) > Len(vocab)

\* C5: a session restarted from k records is exhausted after exactly k
\* gradings when all of them are correct, having presented the items in the
\* shuffled order, and is exhausted only after more than k gradings when
\* some grading was incorrect.
C5_Exhaustion ==
    event # "init" =>
        /\ incorrects = 0 =>
              /\ idx = Len(cards) <=> gradings = Len(vocab)
              /\ gradings <= Len(vocab)
              /\ presented = SubSeq(shuffled, 1, gradings)
        /\ (incorrects > 0 /\ idx = Len(cards)) => gradings > Len(vocab)

\* Deck of three, all graded correct: exhausted after three gradings.
C5_Witness ==
    /\ Len(vocab) = 3
    /\ event = "next"
    /\ incorrects = 0
    /\ gradings = 3
    /\ idx = Len(cards)
    /\ presented = shuffled
    /\ shuffled # <<1, 3, 5>>

\* The items of cs that carry no tag, in queue order.
Originals(cs) == SelectSeq(cs, Untagged)

\* The items of cs that were already in the queue old, in queue order.
Kept(cs, old) == SelectSeq(cs, LAMBDA c : c.id \in Ids(old))

C8_ExhaustionTerminal ==
    [][idx = Len(cards) =>
        \/ event' = "loadCards"
        \/ (cards' = cards /\ idx' = Len(cards'))
    ]_vars

\* A restart has taken a session out of exhaustion.
C8_Witness ==
    /\ event = "loadCards"
    /\ idx < Len(cards)
    /\ clearSignal = 0
    /\ gradings = 0

\* C9: next or onIncorrect invoked when idx = cards.length changes neither
\* the queue nor the position.
C9_NoOpWhenExhausted ==
    [][(idx = Len(cards) /\ IsGrading) => (cards' = cards /\ idx' = idx)]_vars

\* C10: loadCards leaves a queue of exactly one untagged card per vocabulary
\* row (length k, each row once, no clone of the previous session), idx = 0
\* and the answer hidden.
C10_RestartRebuilds ==
    event = "loadCards" =>
        /\ Len(cards) = Len(vocab)
        /\ \A i \in DOMAIN cards : Untagged(cards[i])
        /\ \A r \in DOMAIN vocab :
              Cardinality({i \in DOMAIN cards :
                  /\ cards[i].hanzi = vocab[r].hanzi
                  /\ cards[i].pinyin = vocab[r].pinyin
                  /\ cards[i].english = vocab[r].english}) = 1
        /\ Cardinality(Ids(cards)) = Len(cards)
        /\ idx = 0
        /\ showAnswer = FALSE

\* Three rows restarted into an order that is not the file's.
C10_Witness ==
    /\ event = "loadCards"
    /\ Len(cards) = 3
    /\ cards[1].hanzi = 3
    /\ cards[3].hanzi = 2

\* The ids a session of at most MaxRecords rows and MaxIncorrect incorrect
\* gradings can hand out.
IdRange == 1..(2 * MaxRecords + 2 * MaxIncorrect)

\* The 0-based index of the item with id i, which is queued.
IndexOf(cs, i) == (CHOOSE j \in DOMAIN cs : cs[j].id = i) - 1

\* The item with id i carries scheduledEnd and waits behind the cursor.
EndPending(cs, p, i) ==
    \E j \in DOMAIN cs : cs[j].id = i /\ cs[j].scheduledEnd /\ j - 1 > p

C12_SlotResetOnGrading ==
    [][(IsGrading /\ currentOf(cards', idx') # current) => slot' = 0]_vars

\* C14: the active slot is always one of 0, 1, 2, 3; the left button and the
\* ArrowLeft key both take s to (s + 3) mod 4, the right button and the
\* ArrowRight key both take s to (s + 1) mod 4, and the one map undoes the
\* other.
C14_Navigation ==
    [][/\ slot \in 0..3 /\ slot' \in 0..3
       /\ event' \in {"goLeft", "ArrowLeft"} => slot' = (slot + 3) % 4
       /\ event' \in {"goRight", "ArrowRight"} => slot' = (slot + 1) % 4
       /\ event' \in {"goLeft", "ArrowLeft"} => slot = (slot' + 1) % 4
       /\ event' \in {"goRight", "ArrowRight"} => slot = (slot' + 3) % 4
       /\ event' \notin {"goLeft", "ArrowLeft", "goRight", "ArrowRight"}
             => slot' \in {slot, 0}]_vars

\* The wrap-around to the left has happened by key: slot 3 straight after
\* ArrowLeft, on a card on which nothing else has been done yet.
C14_Witness ==
    /\ slot = 3
    /\ event = "ArrowLeft"
    /\ ~showAnswer
    /\ gradings > 0

\* C18 as claimed: no queue item carries both tags.
C18_ExactlyOneTag ==
    \A i \in DOMAIN cards : ~(cards[i].scheduledShort /\ cards[i].scheduledEnd)


\* C19: a grading at position p of a queue of length L leaves every item at
\* an index below min(p + 4, L) where it is; so the short clone that an
\* incorrect grading at position p put at index i (1 <= i - p <= 4) is found
\* at index i for the rest of the session, and it is the current item exactly
\* when i - p gradings have been made from position p on, the incorrect one
\* included, whatever the grades of the cards in between.
C19_ShortCloneReached ==
    /\ [][IsGrading =>
            \A j \in 1..Min(idx + 4, Len(cards)) : cards'[j] = cards[j]]_vars
    /\ [](\A k \in DOMAIN placed :
            LET r == placed[k]
            IN  /\ r.at - r.pos \in 1..4
                /\ r.at + 1 \in DOMAIN cards
                /\ cards[r.at + 1].id = r.id
                /\ cards[r.at + 1].scheduledShort
                /\ cards[r.at + 1].baseId = r.baseId
                /\ (current.id = r.id) <=> (gradings = r.n + (r.at - r.pos))
                /\ (current.id = r.id) <=> (idx = r.at))

\* A short clone placed 4 ahead is the current item, and a card between the
\* incorrect grading and the clone was graded incorrect as well.
C19_Witness ==
    \E k \in DOMAIN placed :
        /\ placed[k].at - placed[k].pos = 4
        /\ idx = placed[k].at
        /\ current.id = placed[k].id
        /\ k < Len(placed)


\* The record (baseId) of the queued item with id i.
BaseOf(cs, i) == cs[IndexOf(cs, i) + 1].baseId

\* How often an item of record b was graded, and how often graded incorrect.
Presentations(b) ==
    Cardinality({n \in DOMAIN presented : BaseOf(cards, presented[n]) = b})

IncorrectOf(b) ==
    Cardinality({k \in DOMAIN placed : placed[k].baseId = b})

Exhausted == cards # <<>> /\ idx = Len(cards)

\* C20: when a session that started from k records is exhausted after n
\* incorrect gradings, k + 2n gradings have been made, and each record was
\* presented 1 + 2m times, m being the incorrect gradings of its items.
C20_ExhaustionCount ==
    Exhausted =>
        /\ incorrects = Len(placed)
        /\ gradings = Len(presented)
        /\ gradings = Len(vocab) + 2 * incorrects
        /\ Cardinality({cards[j].baseId : j \in DOMAIN cards}) = Len(vocab)
        /\ \A j \in DOMAIN cards :
              Presentations(cards[j].baseId) = 1 + 2 * IncorrectOf(cards[j].baseId)

\* Exhaustion of a session of two or more records in which one record was
\* graded incorrect on its original and again on a clone, and another record
\* was graded incorrect too.
C20_Witness ==
    /\ Exhausted
    /\ Len(vocab) >= 2
    /\ \E k1, k2, k3 \in DOMAIN placed :
          /\ k1 # k2
          /\ placed[k1].baseId = placed[k2].baseId
          /\ placed[k3].baseId # placed[k1].baseId
          /\ \E j \in DOMAIN cards :
                cards[j].id = placed[k2].graded /\ ~Untagged(cards[j])


\* C11: right after a grading, correct or incorrect, none of the 4 slots
\* holds ink and the ghost is hidden, whatever was drawn in whichever slot.
C11_GradingClearsInk ==
    event \in {"next", "onIncorrect"} =>
        /\ \A i \in 0..3 : ink[i] = {}
        /\ ~ghostVisible

\* Straight after an incorrect grading a next card is shown, and a stroke of
\* two segments had been drawn on the graded card in a slot other than 0.
C11_Witness ==
    /\ event = "onIncorrect"
    /\ ~doneView(cards, idx)
    /\ \E i \in 1..3 : path[i] >= 2 /\ ~drawing[i]
    /\ \A i \in 0..3 : ink[i] = {}

\* C13: revealing the answer shows the ghost and changes nothing else: the
\* ink of the 4 slots, the active slot, the queue and the position stay.
C13_RevealFrame ==
    [][event' = "onCheck" =>
         /\ ghostVisible'
         /\ ink' = ink
         /\ slot' = slot
         /\ cards' = cards
         /\ idx' = idx
         /\ <<path, drawing, clearSignal>>' = <<path, drawing, clearSignal>>]_vars

\* The answer has just been revealed while a slot other than the active one
\* holds ink and the active slot is not slot 0.
C13_Witness ==
    /\ event = "onCheck"
    /\ ghostVisible
    /\ slot # 0
    /\ \E i \in 0..3 : i # slot /\ ink[i] # {}

\* C17 as claimed: a slot that was cleared holds no ink until a new
\* pointer-down is seen on it.
C17_ClearAbandonsStroke ==
    \A i \in 0..3 : cleared[i] => ink[i] = {}


\* The code points of the units us, one after the other.
RECURSIVE Flatten(_)
Flatten(us) == IF us = <<>> THEN <<>> ELSE Head(us) \o Flatten(Tail(us))

IsPrefix(a, b) == Len(a) <= Len(b) /\ SubSeq(b, 1, Len(a)) = a

\* u is one character unit: a single code point, or with Intl.Segmenter a
\* code point followed by the marks that belong to it.
IsUnit(u, intl) ==
    /\ u # <<>>
    /\ \A i \in DOMAIN u : ~IsSpace(u[i])
    /\ IF intl = "segmenter" THEN \A i \in 2..Len(u) : u[i] = Mark ELSE Len(u) = 1

\* C15: segment(text, max) returns exactly max units: the first max character
\* units of the text without its whitespace (U+3000 included), in order, and
\* after them empty units only.
C15_SegmentLength ==
    seg.pc = "done" =>
        LET r == seg.result
            stripped == SelectSeq(seg.text, LAMBDA c : c \notin {Space, IdSpace})
        IN  /\ Len(r) = seg.max
            /\ \E n \in 0..Len(r) :
                  LET taken == SubSeq(r, 1, n)
                      rest == SubSeq(stripped, Len(Flatten(taken)) + 1, Len(stripped))
                  IN  /\ \A i \in 1..n : IsUnit(r[i], seg.intl)
                      /\ \A i \in (n + 1)..Len(r) : r[i] = <<>>
                      /\ IsPrefix(Flatten(taken), stripped)
                      /\ seg.intl = "segmenter" => \A i \in 2..n : r[i][1] # Mark
                      /\ n < seg.max => rest = <<>>
                      /\ (seg.intl = "segmenter" /\ rest # <<>> /\ n > 0)
                            => Head(rest) # Mark

\* "zhong, U+3000, guo" split into 4 gave zhong, guo and two empty units.
C15_Witness ==
    /\ seg.pc = "done"
    /\ seg.text = <<Zhong, IdSpace, Guo>>
    /\ seg.max = 4
    /\ seg.result = <<(<<Zhong>>), (<<Guo>>), <<>>, <<>>>>


\* C16 as claimed: whatever the box, the padding and the text, the font size
\* that fitFontSize returns is at least 12.
C16_AtLeastTwelve ==
    fit.pc = "done" => fit.size >= 12

====
